---- MODULE Spec2Model ----
(***************************************************************************)
(* Model of checks/circular_imports.go: the circular-import multi-file     *)
(* check.  The visit function (fn) accumulates the import graph in the     *)
(* shared state C; the finalize closure runs lookForCycle (Kahn's          *)
(* algorithm), findCycleVertices/dfs and prints one diagnostic per cycle   *)
(* edge.                                                                   *)
(*                                                                         *)
(* Paths are sequences of path components.  Go maps are functions whose    *)
(* DOMAIN is the key set; Go slices are sequences; a nil slice or a        *)
(* missing *ast.Include is the empty sequence.                             *)
(***************************************************************************)
EXTENDS Integers, Sequences, FiniteSets, TLC

\* Number of Include nodes the driver visits before finalize.
MaxVisits == 3

\* The process working directory /w, as the components below the root.
wd == <<"w">>

\* c.Filename values: the files being visited, as written by the driver.
Filenames == { <<"a">>, <<"b">>, <<"..", "w", "c">> }

\* i.Path values: include paths as written in the source files.
IncludePaths == { <<"a">>, <<"b">>, <<"c">>, <<"d">>, <<"e">>, <<".", "b">> }

VARIABLES
    cc,        \* the shared state C: adjList, edgeMeta, inDegrees, filenameToId, idToFilename
    pc,        \* "accumulating" | "topo" | "done"
    visited,   \* number of calls of the visit function so far
    skipped,   \* those that returned on an error: [importer, importee], counted by the failing path
    log,       \* the calls that inserted an edge, in order: [Filename, inc, a, b]
    count,     \* lookForCycle: count
    sources,   \* lookForCycle: sources
    imports,   \* finalize: the vertices returned by lookForCycle
    cycle,     \* finalize: the verdict returned by lookForCycle
    diags,     \* finalize: the diagnostics printed so far
    fault      \* "none" | "unreachable" (panic of findCycleVertices) | "nilInclude" (nil dereference of inc)

vars == <<cc, pc, visited, skipped, log, count, sources, imports, cycle, diags, fault>>

----------------------------------------------------------------------------
(* Maps *)

Has(m, k) == k \in DOMAIN m

\* m[k] = v
Put(m, k, v) == [x \in (DOMAIN m) \cup {k} |-> IF x = k THEN v ELSE m[x]]

\* m[k] of a map[int]int: the zero value when k is missing
GetInt(m, k) == IF Has(m, k) THEN m[k] ELSE 0

EmptyMap == [x \in {} |-> 0]

----------------------------------------------------------------------------
(* Path normalisation: getRelPath *)

RECURSIVE CleanFrom(_, _)
\* filepath.Clean of a rooted path: "." is dropped, ".." removes the
\* component before it (and is dropped at the root).
CleanFrom(comps, acc) ==
    IF comps = <<>> THEN acc
    ELSE LET h == Head(comps) IN
         IF h = "." THEN CleanFrom(Tail(comps), acc)
         ELSE IF h = ".."
              THEN CleanFrom(Tail(comps),
                             IF acc = <<>> THEN <<>> ELSE SubSeq(acc, 1, Len(acc) - 1))
              ELSE CleanFrom(Tail(comps), Append(acc, h))

\* filepath.Abs(f) for a relative f: Clean(Join(wd, f)).
Abs(f) == CleanFrom(wd \o f, <<>>)

\* Length of the longest common prefix of two paths.
CommonLen(base, targ) ==
    LET m == IF Len(base) < Len(targ) THEN Len(base) ELSE Len(targ)
        S == {k \in 0..m : SubSeq(base, 1, k) = SubSeq(targ, 1, k)}
    IN  CHOOSE k \in S : \A j \in S : j <= k

\* filepath.Rel(base, targ) of two clean rooted paths: one ".." per component
\* of base below the common prefix, then the rest of targ; "." when equal.
Rel(base, targ) ==
    LET k    == CommonLen(base, targ)
        up   == [j \in 1..(Len(base) - k) |-> ".."]
        rest == SubSeq(targ, k + 1, Len(targ))
    IN  IF up \o rest = <<>> THEN <<".">> ELSE up \o rest

\* getRelPath(f): (path, error).  getwdErr is the outcome of os.Getwd.
getRelPath(f, getwdErr) ==
    IF getwdErr THEN [path |-> <<>>, err |-> TRUE]
    ELSE [path |-> Rel(wd, Abs(f)), err |-> FALSE]

----------------------------------------------------------------------------
(* The visit function *)

\* getFilenameId without the `exists` test of line 52: every call assigns
\* the next id.
getFilenameIdAlwaysNew(c, f) ==
    LET nextId == Cardinality(DOMAIN c.filenameToId) + 1 IN
    [c EXCEPT !.filenameToId = Put(c.filenameToId, f, nextId),
              !.idToFilename = Put(c.idToFilename, nextId, f)]

\* getFilenameId(c, f): the state after the call; the id is filenameToId[f].
getFilenameId(c, f) ==
    IF ~Has(c.filenameToId, f)
    THEN LET nextId == Cardinality(DOMAIN c.filenameToId) + 1 IN
         [c EXCEPT !.filenameToId = Put(c.filenameToId, f, nextId),
                   !.idToFilename = Put(c.idToFilename, nextId, f)]
    ELSE c

\* EnsureVertex without line 84: the new vertex gets its empty edge list only.
EnsureVertexEdgesOnly(c, v) ==
    IF ~Has(c.adjList, v)
    THEN [c EXCEPT !.adjList = Put(c.adjList, v, <<>>)]
    ELSE c

\* Lines 82-87 for one v: a vertex unknown to adjList gets in-degree 0 and no edges.
EnsureVertex(c, v) ==
    IF ~Has(c.adjList, v)
    THEN [c EXCEPT !.inDegrees = Put(c.inDegrees, v, 0),
                   !.adjList   = Put(c.adjList, v, <<>>)]
    ELSE c

\* Lines 92-95: the Include node is recorded only when the importer has no
\* edgeMeta entry at all.
RecordEdgeMeta(c, a, b, i) ==
    IF ~Has(c.edgeMeta, a)
    THEN [c EXCEPT !.edgeMeta = Put(c.edgeMeta, a, Put(EmptyMap, b, i))]
    ELSE c

\* InsertEdge counting distinct edges: the in-degree is incremented only when
\* b is not yet among the edges of a.
InsertEdgeCountsDistinct(c, importer, importee, i) ==
    LET c1 == getFilenameId(c, importer)
        a  == c1.filenameToId[importer]
        c2 == getFilenameId(c1, importee)
        b  == c2.filenameToId[importee]
        c3 == EnsureVertex(EnsureVertex(c2, a), b)
        new == \A k \in 1..Len(c3.adjList[a]) : c3.adjList[a][k] # b
        c4 == IF new
              THEN [c3 EXCEPT !.inDegrees = Put(c3.inDegrees, b, GetInt(c3.inDegrees, b) + 1)]
              ELSE c3
        c5 == [c4 EXCEPT !.adjList = Put(c4.adjList, a, Append(c4.adjList[a], b))]
    IN  RecordEdgeMeta(c5, a, b, i)

\* InsertEdge keeping one edge per pair: b is appended to the edges of a only
\* when it is not yet among them.
InsertEdgeOnce(c, importer, importee, i) ==
    LET c1 == getFilenameId(c, importer)
        a  == c1.filenameToId[importer]
        c2 == getFilenameId(c1, importee)
        b  == c2.filenameToId[importee]
        c3 == EnsureVertex(EnsureVertex(c2, a), b)
        new == \A k \in 1..Len(c3.adjList[a]) : c3.adjList[a][k] # b
        c4 == [c3 EXCEPT !.inDegrees = Put(c3.inDegrees, b, GetInt(c3.inDegrees, b) + 1)]
        c5 == IF new
              THEN [c4 EXCEPT !.adjList = Put(c4.adjList, a, Append(c4.adjList[a], b))]
              ELSE c4
    IN  RecordEdgeMeta(c5, a, b, i)

\* Lines 79-95: the edge insertion for importer and importee already normalised.
InsertEdge(c, importer, importee, i) ==
    LET c1 == getFilenameId(c, importer)
        a  == c1.filenameToId[importer]
        c2 == getFilenameId(c1, importee)
        b  == c2.filenameToId[importee]
        c3 == EnsureVertex(EnsureVertex(c2, a), b)
        c4 == [c3 EXCEPT !.inDegrees = Put(c3.inDegrees, b, GetInt(c3.inDegrees, b) + 1)]
        c5 == [c4 EXCEPT !.adjList = Put(c4.adjList, a, Append(c4.adjList[a], b))]
    IN  RecordEdgeMeta(c5, a, b, i)

\* fn resolving the importer's id before the importee is normalised: a visit
\* skipped on the importee's error has already registered the importer.
fnRegistersImporterFirst(c, Filename, i, getwdErr1, getwdErr2) ==
    LET r1 == getRelPath(Filename, getwdErr1) IN
    IF r1.err THEN c
    ELSE LET c1 == getFilenameId(c, r1.path)
             r2 == getRelPath(i.Path, getwdErr2)
         IN  IF r2.err THEN c1
             ELSE InsertEdge(c1, r1.path, r2.path, i)

\* fn(c, cc, i): the shared state after visiting Include node i of file Filename.
\* getwdErr1, getwdErr2: the outcome of os.Getwd in the two getRelPath calls.
fn(c, Filename, i, getwdErr1, getwdErr2) ==
    LET r1 == getRelPath(Filename, getwdErr1) IN
    IF r1.err THEN c
    ELSE LET r2 == getRelPath(i.Path, getwdErr2) IN
         IF r2.err THEN c
         ELSE InsertEdge(c, r1.path, r2.path, i)

\* Whether fn returns early on a getRelPath error.
fnSkips(Filename, i, getwdErr1, getwdErr2) ==
    getRelPath(Filename, getwdErr1).err \/ getRelPath(i.Path, getwdErr2).err

\* The ids of the two normalised paths after an inserting visit.
IdOf(c, f) == c.filenameToId[Rel(wd, Abs(f))]

----------------------------------------------------------------------------
(* lookForCycle *)

\* The orders in which `for v := range m` can enumerate the key set S.
RangeOrders(S) ==
    {s \in [1..Cardinality(S) -> S] : \A j, k \in 1..Cardinality(S) : s[j] = s[k] => j = k}

\* adjList[v] of a map[int][]int: nil when v is missing
GetSeq(m, k) == IF Has(m, k) THEN m[k] ELSE <<>>

\* Lines 130-138: the vertices of in-degree 0, in the order the map yields them.
InitialSources(inDegrees, order) ==
    SelectSeq(order, LAMBDA v : GetInt(inDegrees, v) = 0)

RECURSIVE RelaxEdgesAtMostZero(_, _, _)
\* RelaxEdges with the test of line 146 written `<= 0`: a vertex is counted
\* and queued every time its in-degree is decremented to 0 or below.
RelaxEdgesAtMostZero(edges, srcs, st) ==
    IF edges = <<>> THEN st
    ELSE LET v   == Head(edges)
             d   == GetInt(st.inDegrees, v) - 1
             st1 == [st EXCEPT !.inDegrees = Put(st.inDegrees, v, d)]
             st2 == IF d <= 0
                    THEN [st1 EXCEPT !.count = st1.count + 1,
                                     !.newSources = Append(srcs, v)]
                    ELSE st1
         IN  RelaxEdgesAtMostZero(Tail(edges), srcs, st2)

RECURSIVE RelaxEdges(_, _, _)
\* Lines 144-150 for one source: st = [inDegrees, count, newSources];
\* srcs is the worklist being ranged over.
RelaxEdges(edges, srcs, st) ==
    IF edges = <<>> THEN st
    ELSE LET v   == Head(edges)
             d   == GetInt(st.inDegrees, v) - 1
             st1 == [st EXCEPT !.inDegrees = Put(st.inDegrees, v, d)]
             st2 == IF d = 0
                    THEN [st1 EXCEPT !.count = st1.count + 1,
                                     !.newSources = Append(srcs, v)]
                    ELSE st1
         IN  RelaxEdges(Tail(edges), srcs, st2)

RECURSIVE RelaxSources(_, _, _, _)
\* Lines 143-151: the inner loop over the worklist srcs; rest is what is left of it.
RelaxSources(adjList, rest, srcs, st) ==
    IF rest = <<>> THEN st
    ELSE RelaxSources(adjList, Tail(rest), srcs,
                      RelaxEdges(GetSeq(adjList, Head(rest)), srcs, st))

\* Lines 141-153: one iteration of `for len(sources) != 0`.
Round(adjList, inDegrees, cnt, srcs) ==
    RelaxSources(adjList, srcs, srcs,
                 [inDegrees |-> inDegrees, count |-> cnt, newSources |-> <<>>])

RECURSIVE TopoLoop(_, _, _, _)
\* Lines 140-154: the loop run to its end; [inDegrees, count].
TopoLoop(adjList, inDegrees, cnt, srcs) ==
    IF Len(srcs) = 0 THEN [inDegrees |-> inDegrees, count |-> cnt]
    ELSE LET r == Round(adjList, inDegrees, cnt, srcs)
         IN  TopoLoop(adjList, r.inDegrees, r.count, r.newSources)

\* Line 158: the verdict of lookForCycle when the map yields its keys in `order`.
lookForCycle(adjList, inDegrees, order) ==
    LET srcs == InitialSources(inDegrees, order)
    IN  TopoLoop(adjList, inDegrees, Len(srcs), srcs).count # Cardinality(DOMAIN adjList)

----------------------------------------------------------------------------
(* findCycleVertices and dfs *)

\* Index of the first occurrence of v in s, 0 when absent.
IndexOf(s, v) ==
    IF \E j \in 1..Len(s) : s[j] = v
    THEN CHOOSE j \in 1..Len(s) : s[j] = v /\ \A k \in 1..(j - 1) : s[k] # v
    ELSE 0

RECURSIVE dfs(_, _, _, _, _)
RECURSIVE dfsEdges(_, _, _, _, _, _)
\* dfs(cur, adjList, vertices, vis, globalVis): [vs, vis, globalVis], where vs
\* is the returned slice (<<>> for nil) and vis, globalVis are the maps after
\* the call, as the sets of keys mapped to true.
dfs(cur, adjList, vertices, vis, globalVis) ==
    IF cur \in vis /\ IndexOf(vertices, cur) # 0
    THEN [vs |-> SubSeq(vertices, IndexOf(vertices, cur), Len(vertices)),
          vis |-> vis, globalVis |-> globalVis]
    ELSE IF cur \in globalVis
    THEN [vs |-> <<>>, vis |-> vis, globalVis |-> globalVis]
    ELSE dfsEdges(cur, adjList, vertices, 1, vis \cup {cur}, globalVis \cup {cur})

\* Lines 195-201: the loop over adjList[cur] from its k-th element on.
dfsEdges(cur, adjList, vertices, k, vis, globalVis) ==
    IF k > Len(GetSeq(adjList, cur))
    THEN [vs |-> <<>>, vis |-> vis, globalVis |-> globalVis]
    ELSE LET r == dfs(adjList[cur][k], adjList, Append(vertices, cur), vis, globalVis)
         IN  IF r.vs # <<>> THEN r
             ELSE dfsEdges(cur, adjList, vertices, k + 1, r.vis, r.globalVis)

RECURSIVE findCycleFrom(_, _, _)
\* Lines 168-172 over the remaining start vertices; <<>> when none yields a cycle.
findCycleFrom(adjList, order, globalVis) ==
    IF order = <<>> THEN <<>>
    ELSE LET r == dfs(Head(order), adjList, <<>>, {}, globalVis)
         IN  IF r.vs # <<>> THEN r.vs
             ELSE findCycleFrom(adjList, Tail(order), r.globalVis)

\* findCycleVertices(adjList) when the map yields its keys in `order`;
\* <<>> stands for the panic of line 174.
findCycleVertices(adjList, order) == findCycleFrom(adjList, order, {})

----------------------------------------------------------------------------
(* The finalize closure *)

\* filepath.Base of a path.
Base(p) == p[Len(p)]

\* cc.edgeMeta[a][b]: <<>> (nil) when either key is missing.
EdgeMetaOf(c, a, b) ==
    IF Has(c.edgeMeta, a) /\ Has(c.edgeMeta[a], b) THEN <<c.edgeMeta[a][b]>> ELSE <<>>

\* imports[(i+1)%len(imports)] with i counted from 1.
NextOf(imps, j) == imps[(j % Len(imps)) + 1]

\* Lines 114-121: what is printed for imports[j].
Diagnostic(c, imps, j) ==
    LET im  == imps[j]
        inc == EdgeMetaOf(c, im, NextOf(imps, j))[1]
    IN  [importer   |-> Base(c.idToFilename[im]),
         importee   |-> Base(inc.Path),
         includedAs |-> inc.Path,
         file       |-> c.idToFilename[im],
         line       |-> inc.Line]

\* Number of iterations of the loop of line 112 that complete: it stops at
\* the first edge with no recorded Include node (inc is nil at line 118).
Printed(c, imps) ==
    LET missing == {j \in 1..Len(imps) : EdgeMetaOf(c, imps[j], NextOf(imps, j)) = <<>>}
    IN  IF missing = {} THEN Len(imps)
        ELSE (CHOOSE j \in missing : \A k \in missing : j <= k) - 1

----------------------------------------------------------------------------
(* State machine *)

\* circularImportCtx as constructed (lines 98-104).
circularImportCtx ==
    [adjList      |-> EmptyMap,
     edgeMeta     |-> EmptyMap,
     inDegrees    |-> EmptyMap,
     filenameToId |-> EmptyMap,
     idToFilename |-> EmptyMap]

Init ==
    /\ cc = circularImportCtx
    /\ pc = "accumulating"
    /\ visited = 0
    /\ skipped = [importer |-> 0, importee |-> 0]
    /\ log = <<>>
    /\ count = 0
    /\ sources = <<>>
    /\ imports = <<>>
    /\ cycle = FALSE
    /\ diags = <<>>
    /\ fault = "none"

\* Whether os.Getwd fails in the first and in the second getRelPath call of
\* one visit (the second call is not made when the first fails).
GetwdOutcomes == { <<FALSE, FALSE>>, <<TRUE, FALSE>>, <<FALSE, TRUE>> }

\* The driver visits one Include node.  The node is identified by its
\* position: Line is the number of the visit.
Visit ==
    /\ pc = "accumulating"
    /\ visited < MaxVisits
    /\ \E Filename \in Filenames, Path \in IncludePaths, e \in GetwdOutcomes :
         LET i  == [Path |-> Path, Line |-> visited + 1]
             c2 == fn(cc, Filename, i, e[1], e[2])
         IN  /\ cc' = c2
             /\ visited' = visited + 1
             /\ IF fnSkips(Filename, i, e[1], e[2])
                THEN /\ skipped' = IF getRelPath(Filename, e[1]).err
                                   THEN [skipped EXCEPT !.importer = skipped.importer + 1]
                                   ELSE [skipped EXCEPT !.importee = skipped.importee + 1]
                     /\ log' = log
                ELSE /\ skipped' = skipped
                     /\ log' = Append(log, [Filename |-> Filename,
                                             inc |-> i,
                                             a |-> IdOf(c2, Filename),
                                             b |-> IdOf(c2, Path)])
    /\ UNCHANGED <<pc, count, sources, imports, cycle, diags, fault>>

\* finalize is entered: lookForCycle lines 130-138.
FinalizeBegin ==
    /\ pc = "accumulating"
    /\ \E srcs \in {InitialSources(cc.inDegrees, order) :
                        order \in RangeOrders(DOMAIN cc.adjList)} :
         /\ sources' = srcs
         /\ count' = Len(srcs)
    /\ pc' = "topo"
    /\ UNCHANGED <<cc, visited, skipped, log, imports, cycle, diags, fault>>

\* TopoRound removing the relaxed edges from the graph, as the textbook form
\* of Kahn's algorithm does.
TopoRoundRemovesEdges ==
    /\ pc = "topo"
    /\ Len(sources) # 0
    /\ LET r == Round(cc.adjList, cc.inDegrees, count, sources)
       IN  /\ cc' = [cc EXCEPT !.inDegrees = r.inDegrees,
                               !.adjList = [v \in DOMAIN cc.adjList |->
                                              IF \E k \in 1..Len(sources) : sources[k] = v
                                              THEN <<>> ELSE cc.adjList[v]]]
           /\ count' = r.count
           /\ sources' = r.newSources
    /\ UNCHANGED <<pc, visited, skipped, log, imports, cycle, diags, fault>>

\* TopoRound without line 153: the worklist is never replaced.
TopoRoundKeepsWorklist ==
    /\ pc = "topo"
    /\ Len(sources) # 0
    /\ LET r == Round(cc.adjList, cc.inDegrees, count, sources)
       IN  /\ cc' = [cc EXCEPT !.inDegrees = r.inDegrees]
           /\ count' = r.count
           /\ sources' = sources
    /\ UNCHANGED <<pc, visited, skipped, log, imports, cycle, diags, fault>>

\* One iteration of the loop of line 140.  inDegrees is the map of the
\* shared state itself, so it is updated in place.
TopoRound ==
    /\ pc = "topo"
    /\ Len(sources) # 0
    /\ LET r == Round(cc.adjList, cc.inDegrees, count, sources)
       IN  /\ cc' = [cc EXCEPT !.inDegrees = r.inDegrees]
           /\ count' = r.count
           /\ sources' = r.newSources
    /\ UNCHANGED <<pc, visited, skipped, log, imports, cycle, diags, fault>>

\* Lines 158-162 and the rest of finalize (lines 109-123).
FinalizeEnd ==
    /\ pc = "topo"
    /\ Len(sources) = 0
    /\ cycle' = (count # Cardinality(DOMAIN cc.adjList))
    /\ IF count # Cardinality(DOMAIN cc.adjList)
       THEN \E vs \in {findCycleVertices(cc.adjList, order) :
                          order \in RangeOrders(DOMAIN cc.adjList)} :
              /\ imports' = vs
              /\ IF vs = <<>>
                 THEN /\ fault' = "unreachable"
                      /\ diags' = <<>>
                 ELSE /\ diags' = [j \in 1..Printed(cc, vs) |-> Diagnostic(cc, vs, j)]
                      /\ fault' = IF Printed(cc, vs) = Len(vs) THEN "none" ELSE "nilInclude"
       ELSE /\ imports' = <<>>
            /\ diags' = <<>>
            /\ fault' = "none"
    /\ pc' = "done"
    /\ UNCHANGED <<cc, visited, skipped, log, count, sources>>

Next == Visit \/ FinalizeBegin \/ TopoRound \/ FinalizeEnd

Spec == Init /\ [][Next]_vars

----------------------------------------------------------------------------
(* Graph notions the properties are stated with *)

\* The vertex set V.
Vertices(adjList) == DOMAIN adjList

\* u -> v is an edge of the graph.
IsEdge(adjList, u, v) ==
    /\ u \in DOMAIN adjList
    /\ \E k \in 1..Len(adjList[u]) : adjList[u][k] = v

Successors(adjList, S) == {v \in DOMAIN adjList : \E u \in S : IsEdge(adjList, u, v)}

RECURSIVE Closure(_, _, _)
Closure(adjList, S, n) ==
    IF n = 0 THEN S ELSE Closure(adjList, S \cup Successors(adjList, S), n - 1)

\* The vertices reachable from u by one or more edges.
ReachableFrom(adjList, u) ==
    Closure(adjList, Successors(adjList, {u}), Cardinality(DOMAIN adjList))

\* The graph has a directed cycle.
HasCycle(adjList) == \E v \in DOMAIN adjList : v \in ReachableFrom(adjList, v)

\* imps, closed back to its first vertex, is a cycle of the graph.
IsCycleOf(adjList, imps) ==
    /\ Len(imps) > 0
    /\ \A j \in 1..Len(imps) : IsEdge(adjList, imps[j], NextOf(imps, j))

\* The positions of the log whose visit inserted the edge a -> b.
VisitsOf(a, b) == {k \in 1..Len(log) : log[k].a = a /\ log[k].b = b}

\* The Include node of the first visit that inserted a -> b.
FirstVisited(a, b) ==
    log[CHOOSE k \in VisitsOf(a, b) : \A j \in VisitsOf(a, b) : k <= j].inc

RECURSIVE Build(_, _)
\* The shared state after the visits vs = <<[Filename, inc], ...>>, none of
\* them skipped, starting from c.
Build(c, vs) ==
    IF vs = <<>> THEN c
    ELSE Build(fn(c, Head(vs).Filename, Head(vs).inc, FALSE, FALSE), Tail(vs))

\* The verdicts lookForCycle can return for the shared state c, over the
\* orders in which its first loop can range over adjList.
Verdicts(c) ==
    {lookForCycle(c.adjList, c.inDegrees, order) : order \in RangeOrders(DOMAIN c.adjList)}

\* The normalised form of a path as written.
Normalized(f) == getRelPath(f, FALSE).path

\* Number of occurrences of v in the sequence s.
Occurrences(s, v) == Cardinality({k \in 1..Len(s) : s[k] = v})

\* Number of edges of adjacency that end in b, duplicates counted.
EdgesInto(adjList, b) ==
    Cardinality(UNION {{<<a, k>> : k \in {j \in 1..Len(adjList[a]) : adjList[a][j] = b}} :
                         a \in DOMAIN adjList})

\* The inserting visits of the log, taken in the order p.
Reordered(p) == [k \in 1..Len(log) |-> log[p[k]]]

\* The elements of the sequence s.
Elements(s) == {s[k] : k \in 1..Len(s)}

RECURSIVE KahnEdges(_, _)
\* Kahn's algorithm, relaxing the edges of one source: a vertex whose
\* in-degree reaches 0 is counted and appended to the next worklist.
KahnEdges(edges, st) ==
    IF edges = <<>> THEN st
    ELSE LET v == Head(edges)
             d == GetInt(st.inDegrees, v) - 1
         IN  KahnEdges(Tail(edges),
                       [inDegrees  |-> Put(st.inDegrees, v, d),
                        count      |-> IF d = 0 THEN st.count + 1 ELSE st.count,
                        newSources |-> IF d = 0 THEN Append(st.newSources, v)
                                       ELSE st.newSources])

RECURSIVE KahnSources(_, _, _)
KahnSources(adjList, rest, st) ==
    IF rest = <<>> THEN st
    ELSE KahnSources(adjList, Tail(rest), KahnEdges(GetSeq(adjList, Head(rest)), st))

RECURSIVE KahnLoop(_, _, _, _)
\* Kahn's algorithm with two separate worklists: the count of processed
\* vertices when the worklist is empty.
KahnLoop(adjList, inDegrees, cnt, srcs) ==
    IF srcs = <<>> THEN cnt
    ELSE LET r == KahnSources(adjList, srcs,
                              [inDegrees |-> inDegrees, count |-> cnt, newSources |-> <<>>])
         IN  KahnLoop(adjList, r.inDegrees, r.count, r.newSources)

\* The verdicts of Kahn's algorithm for the shared state c, over the orders
\* of the first worklist.
KahnVerdicts(c) ==
    {LET srcs == InitialSources(c.inDegrees, order)
     IN  KahnLoop(c.adjList, c.inDegrees, Len(srcs), srcs) # Cardinality(DOMAIN c.adjList) :
         order \in RangeOrders(DOMAIN c.adjList)}

----------------------------------------------------------------------------
(* Properties *)

\* C1: when the graph built by the visits has a directed cycle, finalize
\* reports a cycle and prints, without faulting, one diagnostic per vertex of
\* a non-empty vertex sequence that, closed back to its first vertex, is a
\* cycle of the graph.
C1_CycleReported ==
    (pc = "done" /\ HasCycle(cc.adjList)) =>
        /\ cycle
        /\ fault = "none"
        /\ Len(diags) > 0
        /\ Len(diags) = Len(imports)
        /\ IsCycleOf(cc.adjList, imports)

\* C2: when the graph built by the visits is acyclic (the empty graph
\* included), finalize prints no diagnostic, does not fault, and the count of
\* lookForCycle equals the number of vertices.
C2_AcyclicSilent ==
    (pc = "done" /\ ~HasCycle(cc.adjList)) =>
        /\ ~cycle
        /\ diags = <<>>
        /\ fault = "none"
        /\ count = Cardinality(Vertices(cc.adjList))

\* C3: the verdict of finalize does not depend on the order of the visits:
\* visiting the same Include nodes in any other order gives the verdict that
\* this run gave.
C3_VerdictOrderIndependent ==
    (pc = "done") =>
        \A p \in RangeOrders(1..Len(log)) :
            Verdicts(Build(circularImportCtx, Reordered(p))) = {cycle}

\* C4: first-writer-wins: when two or more visits produced the same
\* (importer, importee) pair and that pair is an edge of the cycle finalize
\* reports, the edge gets its diagnostic and the diagnostic cites the Include
\* node of the first of those visits, whatever else the importer includes.
C4_FirstWriterWins ==
    (pc = "done" /\ cycle /\ imports # <<>>) =>
        \A j \in 1..Len(imports) :
            Cardinality(VisitsOf(imports[j], NextOf(imports, j))) >= 2 =>
                /\ j <= Len(diags)
                /\ diags[j].line = FirstVisited(imports[j], NextOf(imports, j)).Line
                /\ diags[j].includedAs = FirstVisited(imports[j], NextOf(imports, j)).Path

\* C5: every edge of adjacency has a recorded Include node, so finalize
\* prints exactly one diagnostic per edge of the cycle it found and never
\* faults on a missing entry.
C5_EveryEdgeHasMetadata ==
    /\ \A a \in DOMAIN cc.adjList : \A k \in 1..Len(cc.adjList[a]) :
           EdgeMetaOf(cc, a, cc.adjList[a][k]) # <<>>
    /\ (pc = "done") => (fault # "nilInclude" /\ Len(diags) = Len(imports))

\* C6: while visits accumulate, inDegree[v] is the number of visits so far
\* that inserted an edge into v, duplicates of one (importer, importee) pair
\* counted one by one.
C6_InDegreeCountsInsertions ==
    (pc = "accumulating") =>
        /\ \A k \in 1..Len(log) : log[k].b \in DOMAIN cc.inDegrees
        /\ \A v \in DOMAIN cc.inDegrees :
               cc.inDegrees[v] = Cardinality({k \in 1..Len(log) : log[k].b = v})

\* A vertex was the importee of the same pair twice.
C6_Witness ==
    /\ pc = "accumulating"
    /\ \E j, k \in 1..Len(log) :
           j < k /\ log[j].a = log[k].a /\ log[j].b = log[k].b
                 /\ cc.inDegrees[log[k].b] >= 2

\* C7: filenameToId maps the n paths seen one-to-one onto 1..n, idToFilename
\* is its inverse, and every path of every visit so far, importer or
\* importee, still has the id it had when that visit was made.
C7_StableIds ==
    LET n == Cardinality(DOMAIN cc.filenameToId) IN
    /\ \A f \in DOMAIN cc.filenameToId : cc.filenameToId[f] \in 1..n
    /\ \A f, g \in DOMAIN cc.filenameToId :
           cc.filenameToId[f] = cc.filenameToId[g] => f = g
    /\ DOMAIN cc.idToFilename = 1..n
    /\ \A f \in DOMAIN cc.filenameToId : cc.idToFilename[cc.filenameToId[f]] = f
    /\ \A k \in 1..Len(log) :
           /\ Normalized(log[k].Filename) \in DOMAIN cc.filenameToId
           /\ Normalized(log[k].inc.Path) \in DOMAIN cc.filenameToId
           /\ cc.filenameToId[Normalized(log[k].Filename)] = log[k].a
           /\ cc.filenameToId[Normalized(log[k].inc.Path)] = log[k].b

\* One file was the importee of an earlier visit and the importer of a later
\* one, written differently the two times, and other paths got ids in between.
C7_Witness ==
    \E j, k \in 1..Len(log) :
        /\ j < k
        /\ log[j].b = log[k].a
        /\ log[j].inc.Path # log[k].Filename
        /\ Cardinality(DOMAIN cc.filenameToId) >= 3

\* C8: visits skipped on a normalisation error leave no trace: the shared
\* state is the one the inserting visits alone build.
C8_SkippedVisitsLeaveNoTrace ==
    (pc = "accumulating") => cc = Build(circularImportCtx, log)

\* Visits were skipped on the importer's and on the importee's path, around
\* a visit that inserted an edge.
C8_Witness ==
    /\ skipped.importer > 0
    /\ skipped.importee > 0
    /\ log # <<>>
    /\ visited > log[1].inc.Line

\* C9 as stated: from the step that enters finalize on, the whole shared
\* state is left as it was.
C9_FinalizeReadsOnly ==
    [][(pc' # "accumulating") => cc' = cc]_vars

\* C9 amended: from the step that enters finalize on, adjacency, the edge
\* metadata and the two id maps are left as they were (inDegrees is not: the
\* topological pass decrements it in place).
C9_FinalizeKeepsGraph ==
    [][(pc' # "accumulating") =>
          /\ cc'.adjList = cc.adjList
          /\ cc'.edgeMeta = cc.edgeMeta
          /\ cc'.filenameToId = cc.filenameToId
          /\ cc'.idToFilename = cc.idToFilename]_vars

\* finalize has returned after decrementing an in-degree.
C9_Witness ==
    /\ pc = "done"
    /\ \E v \in DOMAIN cc.inDegrees :
           cc.inDegrees[v] < Cardinality({k \in 1..Len(log) : log[k].b = v})

\* C10 as stated: when two or more visits of a produce the same importee b,
\* b occurs once among the edges of a, and inDegree[b] counts every visit
\* into b.
C10_DuplicateIsOneEdge ==
    (pc = "accumulating") =>
        \A a, b \in DOMAIN cc.adjList :
            Cardinality(VisitsOf(a, b)) >= 2 =>
                /\ Occurrences(cc.adjList[a], b) = 1
                /\ cc.inDegrees[b] = Cardinality({k \in 1..Len(log) : log[k].b = b})

\* C10 amended: b occurs among the edges of a once per visit of a that
\* produced b, and inDegree[b] is the number of edges of adjacency into b.
C10_DuplicateIsOneEdgePerVisit ==
    (pc = "accumulating") =>
        \A a, b \in DOMAIN cc.adjList :
            /\ Occurrences(cc.adjList[a], b) = Cardinality(VisitsOf(a, b))
            /\ cc.inDegrees[b] = EdgesInto(cc.adjList, b)

\* File a included b twice, written in two different ways.
C10_Witness ==
    /\ pc = "accumulating"
    /\ \E j, k \in 1..Len(log) :
           /\ j < k
           /\ log[j].a = log[k].a
           /\ log[j].b = log[k].b
           /\ log[j].inc.Path # log[k].inc.Path

\* C11: for the graph built by the visits, lookForCycle returns the verdict
\* that Kahn's algorithm with two separate worklists returns on the same
\* adjacency and in-degrees, whatever the order of the first worklist.
C11_VerdictIsKahns ==
    (pc = "accumulating") => Verdicts(cc) = KahnVerdicts(cc)

\* C12: the panic of findCycleVertices is never executed.
C12_PanicUnreachable ==
    fault # "unreachable"

\* C13: a vertex whose in-degree reaches 0 in a round of the topological pass
\* is in the worklist of the next round.
C13_ZeroedVertexInNextWorklist ==
    [][(pc = "topo" /\ pc' = "topo") =>
          \A v \in DOMAIN cc.inDegrees :
              (cc.inDegrees[v] # 0 /\ cc'.inDegrees[v] = 0) => v \in Elements(sources')]_vars

\* C14: the vertices that findCycleVertices returns form a simple cycle of
\* the graph: no vertex is repeated, each one has an edge to the next and the
\* last to the first (so each lies on a cycle), and finalize prints as many
\* diagnostics as the cycle has vertices.
C14_WitnessIsSimpleCycle ==
    (pc = "done" /\ cycle /\ fault # "unreachable") =>
        /\ \A j, k \in 1..Len(imports) : imports[j] = imports[k] => j = k
        /\ IsCycleOf(cc.adjList, imports)
        /\ Len(diags) = Len(imports)

\* C16: while visits accumulate, adjacency and inDegree have the same keys,
\* the keys are exactly the ids assigned by getFilenameId, and every vertex
\* inside an adjacency sequence is a key.
C16_VerticesAreRegistered ==
    (pc = "accumulating") =>
        /\ DOMAIN cc.adjList = DOMAIN cc.inDegrees
        /\ DOMAIN cc.adjList = {cc.filenameToId[f] : f \in DOMAIN cc.filenameToId}
        /\ \A a \in DOMAIN cc.adjList : Elements(cc.adjList[a]) \subseteq DOMAIN cc.adjList
        /\ \A v \in DOMAIN cc.inDegrees : cc.inDegrees[v] >= 0

\* A file that only includes and a file that is only included are both
\* vertices: the first with in-degree 0, the second with no edges.
C16_Witness ==
    /\ pc = "accumulating"
    /\ \E a, b \in DOMAIN cc.adjList :
           /\ a # b
           /\ cc.inDegrees[a] = 0 /\ cc.adjList[a] # <<>>
           /\ cc.inDegrees[b] > 0 /\ cc.adjList[b] = <<>>
    /\ Cardinality(DOMAIN cc.adjList) >= 4

\* C17: for a fixed shared state, every order in which the first loop of
\* lookForCycle ranges over adjList gives the same verdict.
C17_VerdictIgnoresMapOrder ==
    (pc = "accumulating") => Cardinality(Verdicts(cc)) = 1

\* C18: no in-degree is ever decremented below 0.
C18_InDegreeNeverNegative ==
    \A v \in DOMAIN cc.inDegrees : cc.inDegrees[v] >= 0

\* C19: in the topological pass count is the number of vertices whose
\* in-degree has reached 0 (each counted once, re-processed or not), so it
\* stays between 0 and the number of vertices.
C19_CountBounded ==
    (pc # "accumulating") =>
        /\ count = Cardinality({v \in DOMAIN cc.inDegrees : cc.inDegrees[v] <= 0})
        /\ 0 <= count
        /\ count <= Cardinality(Vertices(cc.adjList))

\* The pass has ended after re-processing a source (an in-degree below 0)
\* with every vertex counted.
C19_Witness ==
    /\ pc = "done"
    /\ \E v \in DOMAIN cc.inDegrees : cc.inDegrees[v] < 0
    /\ count = Cardinality(Vertices(cc.adjList))
    /\ count >= 3

\* C15: finalize terminates.  Every round of the worklist loop that leaves a
\* non-empty worklist raises count, which never exceeds the number of
\* vertices, so the loop makes at most that many such rounds before the
\* worklist is empty; the step that follows an empty worklist ends finalize,
\* with a cycle, a panic or nothing to report.
C15_FinalizeTerminates ==
    [][/\ (pc = "topo" /\ pc' = "topo" /\ Len(sources') # 0) =>
             (count < count' /\ count' <= Cardinality(Vertices(cc.adjList)))
       /\ (pc = "topo" /\ Len(sources) = 0) => pc' = "done"]_vars

\* finalize has ended after three or more rounds on a graph with a cycle,
\* a duplicate edge or a self-loop.
C15_Witness ==
    /\ pc = "done"
    /\ \E v \in DOMAIN cc.inDegrees : cc.inDegrees[v] < -1
    /\ \/ HasCycle(cc.adjList)
       \/ \E a \in DOMAIN cc.adjList : \E j, k \in 1..Len(cc.adjList[a]) :
              j < k /\ cc.adjList[a][j] = cc.adjList[a][k]

====
